---- MODULE Spec2Model ----
(***************************************************************************)
(* A model of hippo/graph.py: the Graph registry, the Node adjacency lists *)
(* and their mutation operations (new, link, unlink, remove, del), the     *)
(* traversal engine (dfs_path, bfs_path, edges_iter, topological_order,    *)
(* has_cycle, tree_root, strongly_connected_components) and read_graph;    *)
(* and of hippo/weighted_graph.py: WeightedNode and WeightedGraph.         *)
(*                                                                         *)
(* A Node object is identified by the pair <<g, id>> of its owning graph   *)
(* and its id: Graph.new is the only allocator, and it creates one object  *)
(* per registered id.  A Python list is a sequence, a dict is the sequence *)
(* of its keys in insertion order, None is the empty sequence <<>> and an  *)
(* optional value v is <<v>>.  Only the objects a registry holds are part  *)
(* of the state: a removed node is a dangling reference no operation may   *)
(* be called on, and its slot holds empty lists.                           *)
(*                                                                         *)
(* A traversal is modelled twice: as an operator that runs the generator   *)
(* to its end (dfs_path, bfs_path, edges_iter, ...), and as a machine the  *)
(* caller resumes step by step (dfs_path_step, bfs_path_step, ...).        *)
(***************************************************************************)
EXTENDS Integers, Sequences, FiniteSets, TLC

\* Bounds of the model.
MaxNodes == 3      \* the ids a caller uses are 1..MaxNodes
MaxOps == 6        \* new, link, unlink, remove and del calls made in one run
MaxLines == 2      \* the lines of an input read_graph is given

Ids == 1..MaxNodes

\* The Graph instances a program constructs: a program that uses one graph
\* constructs "g", a program that uses two constructs "g" and "h".
Graphs == {"g", "h"}
OneGraph == {"g"}
Node == Graphs \X Ids

VARIABLES
    _nodes,     \* Graph._nodes: per graph, the registered ids in insertion order
    _in,        \* Node._in: per node object, the list of predecessor nodes
    _out,       \* Node._out: per node object, the list of successor nodes
    ops,        \* the number of mutating calls made so far
    ret         \* the last call: its name, and what it returned or raised

vars == <<_nodes, _in, _out, ops, ret>>

None == <<>>
Some(v) == <<v>>

----------------------------------------------------------------------------
\* Lists and lookups

Range(s) == {s[i] : i \in 1..Len(s)}

\* The list comprehension [n for n in lst if n is not x].
Without(lst, x) == SelectSeq(lst, LAMBDA n : n /= x)

\* Node._graph and Node.id of the node object <<g, id>>.
_graph(n) == n[1]
id(n) == n[2]

\* Graph.__contains__ for an id, Graph.__getitem__, Graph.__iter__, Graph.__len__.
Contains(g, i) == i \in Range(_nodes[g])
GetItem(g, i) == <<g, i>>
Iter(g) == [k \in 1..Len(_nodes[g]) |-> GetItem(g, _nodes[g][k])]
GraphLen(g) == Len(_nodes[g])

\* The node objects a graph's registry holds.
Registered == {n \in Node : Contains(_graph(n), id(n))}
NodesOf(g) == {n \in Registered : _graph(n) = g}

\* Node.out_nodes / Node.in_nodes, and the list a traversal follows.
out_nodes(n) == _out[n]
in_nodes(n) == _in[n]
Adj(n, reverse) == IF ~reverse THEN out_nodes(n) ELSE in_nodes(n)

----------------------------------------------------------------------------
\* Mutations

\* Mutant of LinkRaises: the check of the owning graphs is missing.
LinkRaisesNever(self, node) == FALSE

\* Node.link: the first check, and the adjacency lists after a normal return.
LinkRaises(self, node) == _graph(self) /= _graph(node)

\* Mutant of LinkOut: the self is node check is missing.
LinkOutSelfLoop(self, node) ==
    IF node \notin Range(_out[self])
    THEN [_out EXCEPT ![self] = Append(@, node)]
    ELSE _out

LinkOut(self, node) ==
    IF self = node THEN _out
    ELSE IF node \notin Range(_out[self])
         THEN [_out EXCEPT ![self] = Append(@, node)]
         ELSE _out

\* Mutant of LinkIn: the new entry is inserted at the front.
LinkInPrepend(self, node) ==
    IF self = node THEN _in
    ELSE IF self \notin Range(_in[node])
         THEN [_in EXCEPT ![node] = <<self>> \o @]
         ELSE _in

\* Mutant of LinkIn: the self is node check is missing.
LinkInSelfLoop(self, node) ==
    IF self \notin Range(_in[node])
    THEN [_in EXCEPT ![node] = Append(@, self)]
    ELSE _in

LinkIn(self, node) ==
    IF self = node THEN _in
    ELSE IF self \notin Range(_in[node])
         THEN [_in EXCEPT ![node] = Append(@, self)]
         ELSE _in

\* Mutant of UnlinkIn: the comprehension filters self._in instead of node._in.
UnlinkInWrongList(self, node) == [_in EXCEPT ![self] = Without(@, node)]

\* Mutant of UnlinkOut: the test of the comprehension is inverted.
UnlinkOutKeepsOnlyNode(self, node) ==
    [_out EXCEPT ![self] = SelectSeq(@, LAMBDA n : n = node)]

\* Node.unlink: two list comprehensions, no check.
UnlinkOut(self, node) == [_out EXCEPT ![self] = Without(@, node)]
UnlinkIn(self, node) == [_in EXCEPT ![node] = Without(@, self)]

\* Mutant of RemoveOut: the first loop of remove is missing.
RemoveOutKeepsEdges(self) == [m \in Node |-> IF m = self THEN <<>> ELSE _out[m]]

\* Node.remove: the first loop rewrites the _out of every node of self._in, the
\* second loop the _in of every node of self._out.  The del that follows drops
\* the registry's reference to self: the object is no longer part of the graph,
\* and its slot holds empty lists until Graph.new allocates a node there again.
RemoveOut(self) ==
    [m \in Node |-> IF m = self THEN <<>>
                    ELSE IF m \in Range(_in[self]) THEN Without(_out[m], self)
                    ELSE _out[m]]

RemoveIn(self) ==
    [m \in Node |-> IF m = self THEN <<>>
                    ELSE IF m \in Range(_out[self]) THEN Without(_in[m], self)
                    ELSE _in[m]]

RemoveNodes(self) == [_nodes EXCEPT ![_graph(self)] = Without(@, id(self))]

\* Graph.new: the duplicate check, the registry and the fresh node's lists.
NewRaises(g, i) == i \in Range(_nodes[g])
NewNodes(g, i) == [_nodes EXCEPT ![g] = Append(@, i)]
NewIn(g, i) == [_in EXCEPT ![<<g, i>>] = <<>>]
NewOut(g, i) == [_out EXCEPT ![<<g, i>>] = <<>>]

\* What a mutating call leaves in ret: its name and the exception it raised.
Call(op, exc) == [op |-> op, exc |-> exc]

\* graph.new(id)
New(g, i) ==
    /\ ops < MaxOps
    /\ ops' = ops + 1
    /\ IF NewRaises(g, i)
       THEN /\ ret' = Call("new", "ValueError")
            /\ UNCHANGED <<_nodes, _in, _out>>
       ELSE /\ _nodes' = NewNodes(g, i)
            /\ _in' = NewIn(g, i)
            /\ _out' = NewOut(g, i)
            /\ ret' = Call("new", "none")

\* self.link(node)
Link(self, node) ==
    /\ ops < MaxOps
    /\ self \in Registered /\ node \in Registered
    /\ ops' = ops + 1
    /\ IF LinkRaises(self, node)
       THEN /\ ret' = Call("link", "ValueError")
            /\ UNCHANGED <<_nodes, _in, _out>>
       ELSE /\ _out' = LinkOut(self, node)
            /\ _in' = LinkIn(self, node)
            /\ ret' = Call("link", "none")
            /\ UNCHANGED _nodes

\* self.unlink(node)
Unlink(self, node) ==
    /\ ops < MaxOps
    /\ self \in Registered /\ node \in Registered
    /\ ops' = ops + 1
    /\ _out' = UnlinkOut(self, node)
    /\ _in' = UnlinkIn(self, node)
    /\ ret' = Call("unlink", "none")
    /\ UNCHANGED _nodes

\* self.remove()
Remove(self) ==
    /\ ops < MaxOps
    /\ self \in Registered
    /\ ops' = ops + 1
    /\ _out' = RemoveOut(self)
    /\ _in' = RemoveIn(self)
    /\ _nodes' = RemoveNodes(self)
    /\ ret' = Call("remove", "none")

\* del graph[id]: Graph.__delitem__ looks the id up and removes the node.
DelItem(g, i) ==
    /\ ops < MaxOps
    /\ ops' = ops + 1
    /\ IF ~Contains(g, i)
       THEN /\ ret' = Call("delitem", "KeyError")
            /\ UNCHANGED <<_nodes, _in, _out>>
       ELSE /\ _out' = RemoveOut(GetItem(g, i))
            /\ _in' = RemoveIn(GetItem(g, i))
            /\ _nodes' = RemoveNodes(GetItem(g, i))
            /\ ret' = Call("delitem", "none")

----------------------------------------------------------------------------
\* SearchNode

SearchNode(node, dist, parent) == [node |-> node, dist |-> dist, parent |-> parent]

\* Mutant of next_node: the distance of the parent is not increased.
next_node_same_dist(sn, node) == SearchNode(node, sn.dist, Some(sn))

\* SearchNode.next_node with the default added_distance of 1.
next_node(sn, node) == SearchNode(node, sn.dist + 1, Some(sn))

\* SearchNode._backtrack / SearchNode.path: the nodes from the search root to sn.
RECURSIVE path(_)
path(sn) ==
    IF sn.parent /= None THEN Append(path(sn.parent[1]), sn.node) ELSE <<sn.node>>

----------------------------------------------------------------------------
\* Depth-first search.  A generator that shares a mutable visited set with its
\* caller is an operator from the set at the call to the items it yields (out)
\* and the set when it is exhausted (visited).

RECURSIVE dfs_path(_, _, _, _)
RECURSIVE dfs_path_loop(_, _, _, _, _)

\* Mutant of dfs_path: the node's own SearchNode is yielded before the loop.
dfs_path_preorder(self, reverse, _visited, _search_node) ==
    IF self \in _visited
    THEN [visited |-> _visited, out |-> <<>>]
    ELSE LET sn == IF _search_node = None THEN SearchNode(self, 0, None)
                   ELSE _search_node[1]
             r == dfs_path_loop(Adj(self, reverse), 1, reverse, _visited \cup {self}, sn)
         IN  [visited |-> r.visited, out |-> <<sn>> \o r.out]

\* Node.dfs_path, consumed to the end.
dfs_path(self, reverse, _visited, _search_node) ==
    IF self \in _visited
    THEN [visited |-> _visited, out |-> <<>>]
    ELSE LET sn == IF _search_node = None THEN SearchNode(self, 0, None)
                   ELSE _search_node[1]
             r == dfs_path_loop(Adj(self, reverse), 1, reverse, _visited \cup {self}, sn)
         IN  [visited |-> r.visited, out |-> Append(r.out, sn)]

\* The for loop of dfs_path over adj[k..]: yield from each neighbour in turn.
dfs_path_loop(adj, k, reverse, _visited, sn) ==
    IF k > Len(adj)
    THEN [visited |-> _visited, out |-> <<>>]
    ELSE LET r1 == dfs_path(adj[k], reverse, _visited, Some(next_node(sn, adj[k])))
             r2 == dfs_path_loop(adj, k + 1, reverse, r1.visited, sn)
         IN  [visited |-> r2.visited, out |-> r1.out \o r2.out]

\* Node.dfs: the nodes of dfs_path's SearchNodes.
dfs(self, reverse, _visited) ==
    LET r == dfs_path(self, reverse, _visited, None)
    IN  [visited |-> r.visited, out |-> [k \in 1..Len(r.out) |-> r.out[k].node]]

----------------------------------------------------------------------------
\* Breadth-first search

RECURSIVE bfs_path_expand(_, _, _, _, _)
\* The inner for loop of bfs_path over adj[k..]: every neighbour not yet
\* visited is marked and queued.
bfs_path_expand(adj, k, search_node, q, visited) ==
    IF k > Len(adj) THEN [q |-> q, visited |-> visited]
    ELSE IF adj[k] \notin visited
         THEN bfs_path_expand(adj, k + 1, search_node,
                              Append(q, next_node(search_node, adj[k])),
                              visited \cup {adj[k]})
         ELSE bfs_path_expand(adj, k + 1, search_node, q, visited)

RECURSIVE bfs_path_expand_late(_, _, _, _, _)
RECURSIVE bfs_path_loop_late(_, _, _, _)
\* Mutant of bfs_path_loop: a node is marked visited when it is dequeued, not
\* when it is queued.
bfs_path_expand_late(adj, k, search_node, q, visited) ==
    IF k > Len(adj) THEN q
    ELSE IF adj[k] \notin visited
         THEN bfs_path_expand_late(adj, k + 1, search_node,
                                   Append(q, next_node(search_node, adj[k])), visited)
         ELSE bfs_path_expand_late(adj, k + 1, search_node, q, visited)

bfs_path_loop_late(q, visited, max_depth, reverse) ==
    IF q = <<>> THEN <<>>
    ELSE LET search_node == Head(q)
             seen == visited \cup {search_node.node}
         IN  IF max_depth /= None /\ search_node.dist = max_depth[1]
             THEN <<search_node>> \o bfs_path_loop_late(Tail(q), seen, max_depth, reverse)
             ELSE <<search_node>> \o
                  bfs_path_loop_late(
                      bfs_path_expand_late(Adj(search_node.node, reverse), 1,
                                           search_node, Tail(q), seen),
                      seen, max_depth, reverse)

RECURSIVE bfs_path_loop_deeper(_, _, _, _)
\* Mutant of bfs_path_loop: the test of the depth is > instead of ==.
bfs_path_loop_deeper(q, visited, max_depth, reverse) ==
    IF q = <<>> THEN <<>>
    ELSE LET search_node == Head(q)
         IN  IF max_depth /= None /\ search_node.dist > max_depth[1]
             THEN <<search_node>> \o bfs_path_loop_deeper(Tail(q), visited, max_depth, reverse)
             ELSE LET e == bfs_path_expand(Adj(search_node.node, reverse), 1,
                                           search_node, Tail(q), visited)
                  IN  <<search_node>>
                      \o bfs_path_loop_deeper(e.q, e.visited, max_depth, reverse)

RECURSIVE bfs_path_loop(_, _, _, _)
\* The while loop of bfs_path: the SearchNodes yielded until the queue is empty.
bfs_path_loop(q, visited, max_depth, reverse) ==
    IF q = <<>> THEN <<>>
    ELSE LET search_node == Head(q)
         IN  IF max_depth /= None /\ search_node.dist = max_depth[1]
             THEN <<search_node>> \o bfs_path_loop(Tail(q), visited, max_depth, reverse)
             ELSE LET e == bfs_path_expand(Adj(search_node.node, reverse), 1,
                                           search_node, Tail(q), visited)
                  IN  <<search_node>> \o bfs_path_loop(e.q, e.visited, max_depth, reverse)

\* Node.bfs_path, consumed to the end; max_depth is None or Some(d).
bfs_path(self, max_depth, reverse) ==
    bfs_path_loop(<<SearchNode(self, 0, None)>>, {self}, max_depth, reverse)

RECURSIVE groupby(_, _)
\* itertools.groupby, each group consumed before the next one is requested: the
\* runs of consecutive items whose keys are equal, keys[k] being the key of
\* items[k].
groupby(items, keys) ==
    IF items = <<>> THEN <<>>
    ELSE LET n == CHOOSE n \in 1..Len(keys) :
                      /\ \A j \in 1..n : keys[j] = keys[1]
                      /\ n = Len(keys) \/ keys[n + 1] /= keys[1]
         IN  <<SubSeq(items, 1, n)>>
             \o groupby(SubSeq(items, n + 1, Len(items)), SubSeq(keys, n + 1, Len(keys)))

\* Mutant of bfs: the key of groupby is the node, not its dist.
bfs_key_node(self, max_depth, reverse) ==
    LET search_nodes == bfs_path(self, max_depth, reverse)
        nodes == [k \in 1..Len(search_nodes) |-> search_nodes[k].node]
    IN  groupby(nodes, nodes)

\* Node.bfs: the layers, each the list of its nodes.
bfs(self, max_depth, reverse) ==
    LET search_nodes == bfs_path(self, max_depth, reverse)
    IN  groupby([k \in 1..Len(search_nodes) |-> search_nodes[k].node],
                [k \in 1..Len(search_nodes) |-> search_nodes[k].dist])

----------------------------------------------------------------------------
\* Edge classification

\* EdgeType, and _VisitedType with "UNSEEN" for a node that is no key of the map.
TREE_EDGE == "TREE_EDGE"
TRIVIAL_BACK_EDGE == "TRIVIAL_BACK_EDGE"
BACK_EDGE == "BACK_EDGE"
CROSS_EDGE == "CROSS_EDGE"
UNSEEN == "UNSEEN"
EXPLORED == "EXPLORED"
VISITED == "VISITED"

\* The marker map a fresh call starts with: {}.
NoMarkers == [n \in Node |-> UNSEEN]

RECURSIVE edges_iter(_, _, _, _)
RECURSIVE edges_iter_loop(_, _, _, _, _)

\* Mutant of edges_iter: the node is never marked VISITED when its loop ends.
edges_iter_stays_explored(self, reverse, _visited, _search_node) ==
    IF _visited[self] /= UNSEEN
    THEN [visited |-> _visited, out |-> <<>>, exc |-> FALSE]
    ELSE LET sn == IF _search_node = None THEN SearchNode(self, 0, None)
                   ELSE _search_node[1]
         IN  edges_iter_loop(Adj(self, reverse), 1, reverse,
                             [_visited EXCEPT ![self] = EXPLORED], sn)

\* Node.edges_iter, consumed to the end: the pairs yielded (out), the marker map
\* afterwards (visited), and whether SearchNode.parent raised "No parent" (exc),
\* which ends the generator after the pairs yielded so far.
edges_iter(self, reverse, _visited, _search_node) ==
    IF _visited[self] /= UNSEEN
    THEN [visited |-> _visited, out |-> <<>>, exc |-> FALSE]
    ELSE LET sn == IF _search_node = None THEN SearchNode(self, 0, None)
                   ELSE _search_node[1]
             r == edges_iter_loop(Adj(self, reverse), 1, reverse,
                                  [_visited EXCEPT ![self] = EXPLORED], sn)
         IN  IF r.exc THEN r
             ELSE [visited |-> [r.visited EXCEPT ![self] = VISITED],
                   out |-> r.out, exc |-> FALSE]

\* The for loop of edges_iter over adj[k..], _search_node being the loop's node.
edges_iter_loop(adj, k, reverse, _visited, _search_node) ==
    IF k > Len(adj)
    THEN [visited |-> _visited, out |-> <<>>, exc |-> FALSE]
    ELSE LET adj_node == adj[k]
             sn == next_node(_search_node, adj_node)
         IN  IF _visited[adj_node] = EXPLORED /\ _search_node.parent = None
             THEN [visited |-> _visited, out |-> <<>>, exc |-> TRUE]
             ELSE LET tag == IF _visited[adj_node] = UNSEEN THEN TREE_EDGE
                             ELSE IF _visited[adj_node] = EXPLORED
                                  THEN IF _search_node.parent[1].node = adj_node
                                       THEN TRIVIAL_BACK_EDGE
                                       ELSE BACK_EDGE
                                  ELSE CROSS_EDGE
                      r1 == edges_iter(adj_node, reverse, _visited, Some(sn))
                      r2 == edges_iter_loop(adj, k + 1, reverse, r1.visited, _search_node)
                  IN  IF r1.exc
                      THEN [visited |-> r1.visited, out |-> <<<<tag, sn>>>> \o r1.out,
                            exc |-> TRUE]
                      ELSE [visited |-> r2.visited,
                            out |-> <<<<tag, sn>>>> \o r1.out \o r2.out,
                            exc |-> r2.exc]

----------------------------------------------------------------------------
\* Whole-graph traversals

RECURSIVE topological_order_loop(_, _, _, _)
\* The for loop of topological_order over the nodes order[k..] of the graph.
topological_order_loop(order, k, reverse, visited) ==
    IF k > Len(order) THEN <<>>
    ELSE LET r == dfs(order[k], ~reverse, visited)
         IN  r.out \o topological_order_loop(order, k + 1, reverse, r.visited)

\* Mutant of topological_order: the dfs follows the direction `reverse` names
\* instead of the opposite one.
topological_order_same_direction(g, reverse) ==
    topological_order_loop(Iter(g), 1, ~reverse, {})

\* Graph.topological_order, consumed to the end.
topological_order(g, reverse) == topological_order_loop(Iter(g), 1, reverse, {})

RECURSIVE strongly_connected_components_loop(_, _, _)
\* The for loop of strongly_connected_components over order[k..], the caller
\* consuming each yielded component before it asks for the next one.
strongly_connected_components_loop(order, k, visited) ==
    IF k > Len(order) THEN <<>>
    ELSE IF order[k] \notin visited
         THEN LET r == dfs(order[k], FALSE, visited)
              IN  <<r.out>> \o strongly_connected_components_loop(order, k + 1, r.visited)
         ELSE strongly_connected_components_loop(order, k + 1, visited)

\* Graph.strongly_connected_components: the components in the order yielded.
strongly_connected_components(g) ==
    strongly_connected_components_loop(topological_order(g, TRUE), 1, {})

RECURSIVE read_components(_, _, _)
\* The caller reads the generators yielded for starts[k..] one after the other;
\* they share the set visited.
read_components(starts, k, visited) ==
    IF k > Len(starts) THEN <<>>
    ELSE LET r == dfs(starts[k], FALSE, visited)
         IN  <<r.out>> \o read_components(starts, k + 1, r.visited)

\* Graph.strongly_connected_components, the caller collecting every component
\* from the outer generator before it reads any: no dfs generator has run while
\* the for loop tests `node not in visited`, so visited is empty at each test.
strongly_connected_components_collected(g) ==
    LET order == topological_order(g, TRUE)
        visited == {}
    IN  read_components(SelectSeq(order, LAMBDA node : node \notin visited), 1, visited)

\* Mutant of CycleTypes: a trivial back edge never counts.
CycleTypesNoTrivial(allow_cross_edges, allow_trivial_back_edges) ==
    {BACK_EDGE} \cup (IF ~allow_cross_edges THEN {CROSS_EDGE} ELSE {})

\* Mutant of CycleTypes: the list starts empty, BACK_EDGE is not in it.
CycleTypesFlagsOnly(allow_cross_edges, allow_trivial_back_edges) ==
    (IF ~allow_trivial_back_edges THEN {TRIVIAL_BACK_EDGE} ELSE {})
    \cup (IF ~allow_cross_edges THEN {CROSS_EDGE} ELSE {})

\* The edge types has_cycle counts as a cycle.
CycleTypes(allow_cross_edges, allow_trivial_back_edges) ==
    {BACK_EDGE}
    \cup (IF ~allow_trivial_back_edges THEN {TRIVIAL_BACK_EDGE} ELSE {})
    \cup (IF ~allow_cross_edges THEN {CROSS_EDGE} ELSE {})

RECURSIVE has_cycle_loop(_, _, _, _)
\* Mutant of has_cycle_loop: every node of the graph is explored with a marker
\* map of its own.
has_cycle_loop_fresh_markers(order, k, _visited, types) ==
    IF k > Len(order) THEN [val |-> FALSE, exc |-> FALSE]
    ELSE LET r == edges_iter(order[k], FALSE, NoMarkers, None)
         IN  IF \E j \in 1..Len(r.out) : r.out[j][1] \in types
             THEN [val |-> TRUE, exc |-> FALSE]
             ELSE IF r.exc THEN [val |-> FALSE, exc |-> TRUE]
             ELSE has_cycle_loop(order, k + 1, r.visited, types)

\* The for loop of has_cycle over order[k..]: any() stops at the first pair whose
\* type counts, and an exception of edges_iter passes through it.
has_cycle_loop(order, k, _visited, types) ==
    IF k > Len(order) THEN [val |-> FALSE, exc |-> FALSE]
    ELSE LET r == edges_iter(order[k], FALSE, _visited, None)
         IN  IF \E j \in 1..Len(r.out) : r.out[j][1] \in types
             THEN [val |-> TRUE, exc |-> FALSE]
             ELSE IF r.exc THEN [val |-> FALSE, exc |-> TRUE]
             ELSE has_cycle_loop(order, k + 1, r.visited, types)

\* Graph.has_cycle: val is the value returned, exc whether the call raised.
has_cycle(g, allow_cross_edges, allow_trivial_back_edges) ==
    has_cycle_loop(Iter(g), 1, NoMarkers,
                   CycleTypes(allow_cross_edges, allow_trivial_back_edges))

\* Graph.tree_root: val is None or Some(node).
tree_root(g) ==
    IF GraphLen(g) = 0 THEN [val |-> None, exc |-> FALSE]
    ELSE LET c == has_cycle(g, FALSE, FALSE)
         IN  IF c.exc THEN [val |-> None, exc |-> TRUE]
             ELSE IF c.val THEN [val |-> None, exc |-> FALSE]
             ELSE [val |-> Some(Head(topological_order(g, FALSE))), exc |-> FALSE]

----------------------------------------------------------------------------
\* Queries: a traversal call leaves the graph alone and its result in ret.

Scc(g) ==
    /\ ret' = [op |-> "strongly_connected_components", g |-> g, exc |-> "none",
               val |-> strongly_connected_components(g)]
    /\ UNCHANGED <<_nodes, _in, _out, ops>>

TopologicalOrder(g, reverse) ==
    /\ ret' = [op |-> "topological_order", g |-> g, reverse |-> reverse, exc |-> "none",
               val |-> topological_order(g, reverse)]
    /\ UNCHANGED <<_nodes, _in, _out, ops>>

\* comps = list(g.strongly_connected_components()), then every component of
\* comps read in turn.
SccCollected(g) ==
    /\ ret' = [op |-> "list(strongly_connected_components)", g |-> g, exc |-> "none",
               val |-> strongly_connected_components_collected(g)]
    /\ UNCHANGED <<_nodes, _in, _out, ops>>

Raised(exc) == IF exc THEN "Exception" ELSE "none"

HasCycle(g, allow_cross_edges, allow_trivial_back_edges) ==
    LET r == has_cycle(g, allow_cross_edges, allow_trivial_back_edges)
    IN  /\ ret' = [op |-> "has_cycle", g |-> g,
                   allow_cross_edges |-> allow_cross_edges,
                   allow_trivial_back_edges |-> allow_trivial_back_edges,
                   exc |-> Raised(r.exc), val |-> r.val]
        /\ UNCHANGED <<_nodes, _in, _out, ops>>

TreeRoot(g) ==
    LET r == tree_root(g)
    IN  /\ ret' = [op |-> "tree_root", g |-> g, exc |-> Raised(r.exc), val |-> r.val]
        /\ UNCHANGED <<_nodes, _in, _out, ops>>

BfsPath(self, reverse) ==
    /\ self \in Registered
    /\ ret' = [op |-> "bfs_path", self |-> self, max_depth |-> None,
               reverse |-> reverse, exc |-> "none",
               val |-> bfs_path(self, None, reverse)]
    /\ UNCHANGED <<_nodes, _in, _out, ops>>

\* self.bfs_path(max_depth=d, reverse=reverse) with a depth d of Depths: 0, which
\* yields the root alone, and the largest depth that prunes a longest path.
Depths == {0, MaxNodes - 2}

BfsPathDepth(self, max_depth, reverse) ==
    /\ self \in Registered
    /\ ret' = [op |-> "bfs_path", self |-> self, max_depth |-> Some(max_depth),
               reverse |-> reverse, exc |-> "none",
               val |-> bfs_path(self, Some(max_depth), reverse)]
    /\ UNCHANGED <<_nodes, _in, _out, ops>>

\* self.bfs(reverse=reverse), every layer read before the next one is requested.
Bfs(self, reverse) ==
    /\ self \in Registered
    /\ ret' = [op |-> "bfs", self |-> self, max_depth |-> None, reverse |-> reverse,
               exc |-> "none", val |-> bfs(self, None, reverse)]
    /\ UNCHANGED <<_nodes, _in, _out, ops>>

\* self.dfs_path(reverse=reverse) and self.dfs(reverse=reverse), called by a
\* user: _visited and _search_node keep their default None, a fresh set.
DfsPath(self, reverse) ==
    /\ self \in Registered
    /\ ret' = [op |-> "dfs_path", self |-> self, reverse |-> reverse, exc |-> "none",
               val |-> dfs_path(self, reverse, {}, None).out]
    /\ UNCHANGED <<_nodes, _in, _out, ops>>

Dfs(self, reverse) ==
    /\ self \in Registered
    /\ ret' = [op |-> "dfs", self |-> self, reverse |-> reverse, exc |-> "none",
               val |-> dfs(self, reverse, {}).out]
    /\ UNCHANGED <<_nodes, _in, _out, ops>>

\* self.edges_iter(reverse=reverse), called by a user with a fresh marker map.
EdgesIter(self, reverse) ==
    LET r == edges_iter(self, reverse, NoMarkers, None)
    IN  /\ self \in Registered
        /\ ret' = [op |-> "edges_iter", self |-> self, reverse |-> reverse,
                   exc |-> Raised(r.exc), val |-> r.out]
        /\ UNCHANGED <<_nodes, _in, _out, ops>>

----------------------------------------------------------------------------
\* Traversals step by step.  A generator is an object the caller resumes with
\* next(): the call leaves the generator in ret, every Resume runs it to its
\* next yield, to the end of one loop iteration or to its return, and any other
\* call drops it.  The state of a generator is a machine m: the call stack
\* (frames, each the node of a dfs_path or edges_iter call and the index k of the
\* adjacency entry its for loop reads next), the roots still to be started, the
\* visited set or marker map the calls share, the nodes whose body was entered
\* (entered), the items yielded (out), the item the last step yielded (item) and
\* whether the generator is exhausted (done).

Frame(node, k) == [node |-> node, k |-> k]

\* The generators of node.dfs_path over roots, sharing _visited, before the first
\* next().
DfsMachine(roots, reverse, _visited) ==
    [roots |-> roots, reverse |-> reverse, frames |-> <<>>, visited |-> _visited,
     entered |-> <<>>, out |-> <<>>, item |-> None, done |-> FALSE]

\* The call node.dfs_path(_visited=m.visited): return at once when node is
\* visited, else mark it and start its for loop.
dfs_path_call(m, node) ==
    IF node \in m.visited THEN m
    ELSE [m EXCEPT !.visited = @ \cup {node},
                   !.frames = Append(@, Frame(node, 1)),
                   !.entered = Append(@, node)]

\* Mutant of dfs_path_step: the for loop does not move on to the next neighbour.
dfs_path_step_same_neighbour(m) ==
    IF m.frames = <<>>
    THEN IF m.roots = <<>> THEN [m EXCEPT !.item = None, !.done = TRUE]
         ELSE dfs_path_call([m EXCEPT !.roots = Tail(@), !.item = None], Head(m.roots))
    ELSE LET top == m.frames[Len(m.frames)]
             adj == Adj(top.node, m.reverse)
         IN  IF top.k <= Len(adj)
             THEN dfs_path_call([m EXCEPT !.item = None], adj[top.k])
             ELSE [m EXCEPT !.frames = SubSeq(@, 1, Len(@) - 1),
                            !.out = Append(@, top.node),
                            !.item = Some(top.node)]

\* One step of dfs_path: start the next root, or let the innermost call read
\* its next neighbour and call dfs_path on it, or, its loop over, yield its node
\* and return.
dfs_path_step(m) ==
    IF m.frames = <<>>
    THEN IF m.roots = <<>> THEN [m EXCEPT !.item = None, !.done = TRUE]
         ELSE dfs_path_call([m EXCEPT !.roots = Tail(@), !.item = None], Head(m.roots))
    ELSE LET top == m.frames[Len(m.frames)]
             adj == Adj(top.node, m.reverse)
         IN  IF top.k <= Len(adj)
             THEN dfs_path_call([m EXCEPT !.frames[Len(m.frames)].k = top.k + 1,
                                          !.item = None],
                                adj[top.k])
             ELSE [m EXCEPT !.frames = SubSeq(@, 1, Len(@) - 1),
                            !.out = Append(@, top.node),
                            !.item = Some(top.node)]

\* The generators of node.edges_iter over roots, sharing the marker map.
EdgesMachine(roots, reverse, _visited) ==
    [roots |-> roots, reverse |-> reverse, frames |-> <<>>, visited |-> _visited,
     entered |-> <<>>, out |-> <<>>, item |-> None, done |-> FALSE, exc |-> FALSE]

\* Mutant of edges_iter_call: the node is marked VISITED when it is entered.
edges_iter_call_finished(m, node) ==
    IF m.visited[node] /= UNSEEN THEN m
    ELSE [m EXCEPT !.visited[node] = VISITED,
                   !.frames = Append(@, Frame(node, 1)),
                   !.entered = Append(@, node)]

\* The call node.edges_iter(_visited=m.visited).
edges_iter_call(m, node) ==
    IF m.visited[node] /= UNSEEN THEN m
    ELSE [m EXCEPT !.visited[node] = EXPLORED,
                   !.frames = Append(@, Frame(node, 1)),
                   !.entered = Append(@, node)]

\* One step of edges_iter: start the next root, or let the innermost call read
\* its next neighbour, yield the pair of its type and call edges_iter on it, or,
\* its loop over, mark its node VISITED and return.  The parent of the innermost
\* call's SearchNode is the SearchNode of the call below it; the root's has none
\* and reading it raises.
edges_iter_step(m) ==
    IF m.frames = <<>>
    THEN IF m.roots = <<>> THEN [m EXCEPT !.item = None, !.done = TRUE]
         ELSE edges_iter_call([m EXCEPT !.roots = Tail(@), !.item = None], Head(m.roots))
    ELSE LET n == Len(m.frames)
             top == m.frames[n]
             adj == Adj(top.node, m.reverse)
         IN  IF top.k <= Len(adj)
             THEN LET adj_node == adj[top.k]
                  IN  IF m.visited[adj_node] = EXPLORED /\ n = 1
                      THEN [m EXCEPT !.item = None, !.done = TRUE, !.exc = TRUE]
                      ELSE LET tag == IF m.visited[adj_node] = UNSEEN THEN TREE_EDGE
                                      ELSE IF m.visited[adj_node] = EXPLORED
                                           THEN IF m.frames[n - 1].node = adj_node
                                                THEN TRIVIAL_BACK_EDGE
                                                ELSE BACK_EDGE
                                           ELSE CROSS_EDGE
                           IN  edges_iter_call(
                                   [m EXCEPT !.frames[n].k = top.k + 1,
                                             !.out = Append(@, <<tag, top.node, adj_node>>),
                                             !.item = Some(<<tag, top.node, adj_node>>)],
                                   adj_node)
             ELSE [m EXCEPT !.frames = SubSeq(@, 1, n - 1),
                            !.visited[top.node] = VISITED,
                            !.item = None]

\* The generator of self.bfs_path before the first next(): the queue holds the
\* root's SearchNode and the root is visited.
BfsMachine(self, max_depth, reverse) ==
    [q |-> <<SearchNode(self, 0, None)>>, max_depth |-> max_depth, reverse |-> reverse,
     visited |-> {self}, entered |-> <<>>, out |-> <<>>, item |-> None, done |-> FALSE]

\* One step of bfs_path: one iteration of the while loop, or its end.
bfs_path_step(m) ==
    IF m.q = <<>> THEN [m EXCEPT !.item = None, !.done = TRUE]
    ELSE LET search_node == Head(m.q)
             e == IF m.max_depth /= None /\ search_node.dist = m.max_depth[1]
                  THEN [q |-> Tail(m.q), visited |-> m.visited]
                  ELSE bfs_path_expand(Adj(search_node.node, m.reverse), 1,
                                       search_node, Tail(m.q), m.visited)
         IN  [m EXCEPT !.q = e.q, !.visited = e.visited,
                       !.entered = Append(@, search_node.node),
                       !.out = Append(@, search_node),
                       !.item = Some(search_node)]

\* The caller holds a generator that has items left, or a call is in progress.
Running == ret.op = "traversal" /\ ret.pc = "run"

\* A call in progress: its name and arguments, where it stands (pc, phase), its
\* machine m, the machine c of the generator it consumes meanwhile, what it
\* returned (val), and whether making the call dropped a generator that had items
\* left (dropped).
Traversal(name, args, phase, m, c, types) ==
    [op |-> "traversal", name |-> name, args |-> args, pc |-> "run", phase |-> phase,
     m |-> m, c |-> c, types |-> types, exc |-> "none", val |-> None,
     dropped |-> Running]

\* has_cycle: one item of the chained edges_iter generators is read; any() returns
\* at the first pair whose type counts.
has_cycle_step(t) ==
    LET m == edges_iter_step(t.m)
    IN  IF m.exc THEN [t EXCEPT !.m = m, !.pc = "done", !.exc = "Exception"]
        ELSE IF m.item /= None /\ m.item[1][1] \in t.types
        THEN [t EXCEPT !.m = m, !.pc = "done", !.val = Some(TRUE)]
        ELSE IF m.done THEN [t EXCEPT !.m = m, !.pc = "done", !.val = Some(FALSE)]
        ELSE [t EXCEPT !.m = m]

\* tree_root: has_cycle first; without a cycle, the first item of
\* topological_order() is read and returned.
tree_root_step(t) ==
    IF t.phase = "has_cycle"
    THEN LET h == has_cycle_step(t)
         IN  IF h.pc = "run" \/ h.exc /= "none" THEN h
             ELSE IF h.val = Some(TRUE) THEN [h EXCEPT !.val = None]
             ELSE [h EXCEPT !.pc = "run", !.phase = "topological_order", !.val = None]
    ELSE LET c == dfs_path_step(t.c)
         IN  IF c.item /= None THEN [t EXCEPT !.c = c, !.pc = "done", !.val = c.item]
             ELSE [t EXCEPT !.c = c]

\* strongly_connected_components, each component read to its end before the next
\* one is requested: in phase "order" the for loop reads the next node of order
\* (m) and yields the generator c of its dfs when the node is not visited; in
\* phase "component" the caller reads c, and val collects the components read.
strongly_connected_components_step(t) ==
    IF t.phase = "order"
    THEN LET m == dfs_path_step(t.m)
         IN  IF m.done THEN [t EXCEPT !.m = m, !.pc = "done"]
             ELSE IF m.item /= None /\ m.item[1] \notin t.c.visited
             THEN [t EXCEPT !.m = m, !.phase = "component",
                            !.c = [t.c EXCEPT !.roots = <<m.item[1]>>, !.out = <<>>,
                                              !.done = FALSE]]
             ELSE [t EXCEPT !.m = m]
    ELSE LET c == dfs_path_step(t.c)
         IN  IF c.done THEN [t EXCEPT !.c = c, !.phase = "order", !.val = Append(@, c.out)]
             ELSE [t EXCEPT !.c = c]

\* A generator nothing consumes.
NoMachine == DfsMachine(<<>>, FALSE, {})

\* next() on the generator, or the next step of the call, that ret holds.
TraversalStep(t) ==
    IF t.name \in {"dfs_path", "topological_order"}
    THEN LET m == dfs_path_step(t.m)
         IN  [t EXCEPT !.m = m, !.pc = IF m.done THEN "done" ELSE "run"]
    ELSE IF t.name = "bfs_path"
    THEN LET m == bfs_path_step(t.m)
         IN  [t EXCEPT !.m = m, !.pc = IF m.done THEN "done" ELSE "run"]
    ELSE IF t.name = "edges_iter"
    THEN LET m == edges_iter_step(t.m)
         IN  [t EXCEPT !.m = m, !.pc = IF m.done THEN "done" ELSE "run",
                       !.exc = Raised(m.exc)]
    ELSE IF t.name = "has_cycle" THEN has_cycle_step(t)
    ELSE IF t.name = "tree_root" THEN tree_root_step(t)
    ELSE strongly_connected_components_step(t)

\* Mutant of DefaultVisited: the default set is created once and shared by the
\* calls, so a call finds in it what the dfs_path call before it left there.
DefaultVisitedShared ==
    IF ret.op = "traversal" /\ ret.name = "dfs_path" THEN ret.m.visited ELSE {}

\* The set dfs_path creates when _visited is None.
DefaultVisited == {}

\* The calls that start a traversal: each leaves a generator (for has_cycle and
\* tree_root, the call itself) that has not run yet in ret.
DfsPathStart(self, reverse) ==
    /\ self \in Registered
    /\ ret' = Traversal("dfs_path", [self |-> self, reverse |-> reverse], "run",
                        DfsMachine(<<self>>, reverse, DefaultVisited), NoMachine, {})
    /\ UNCHANGED <<_nodes, _in, _out, ops>>

BfsPathStart(self, reverse) ==
    /\ self \in Registered
    /\ ret' = Traversal("bfs_path", [self |-> self, reverse |-> reverse], "run",
                        BfsMachine(self, None, reverse), NoMachine, {})
    /\ UNCHANGED <<_nodes, _in, _out, ops>>

EdgesIterStart(self, reverse) ==
    /\ self \in Registered
    /\ ret' = Traversal("edges_iter", [self |-> self, reverse |-> reverse], "run",
                        EdgesMachine(<<self>>, reverse, NoMarkers), NoMachine, {})
    /\ UNCHANGED <<_nodes, _in, _out, ops>>

TopologicalOrderStart(g, reverse) ==
    /\ ret' = Traversal("topological_order", [g |-> g, reverse |-> reverse], "run",
                        DfsMachine(Iter(g), ~reverse, {}), NoMachine, {})
    /\ UNCHANGED <<_nodes, _in, _out, ops>>

HasCycleStart(g, allow_cross_edges, allow_trivial_back_edges) ==
    /\ ret' = Traversal("has_cycle",
                        [g |-> g, allow_cross_edges |-> allow_cross_edges,
                         allow_trivial_back_edges |-> allow_trivial_back_edges],
                        "has_cycle", EdgesMachine(Iter(g), FALSE, NoMarkers), NoMachine,
                        CycleTypes(allow_cross_edges, allow_trivial_back_edges))
    /\ UNCHANGED <<_nodes, _in, _out, ops>>

TreeRootStart(g) ==
    /\ ret' = IF GraphLen(g) = 0
              THEN [Traversal("tree_root", [g |-> g], "has_cycle",
                              EdgesMachine(<<>>, FALSE, NoMarkers), NoMachine, {})
                    EXCEPT !.pc = "done"]
              ELSE Traversal("tree_root", [g |-> g], "has_cycle",
                             EdgesMachine(Iter(g), FALSE, NoMarkers),
                             DfsMachine(Iter(g), TRUE, {}), CycleTypes(FALSE, FALSE))
    /\ UNCHANGED <<_nodes, _in, _out, ops>>

SccStart(g) ==
    /\ ret' = Traversal("strongly_connected_components", [g |-> g], "order",
                        DfsMachine(Iter(g), FALSE, {}), NoMachine, {})
    /\ UNCHANGED <<_nodes, _in, _out, ops>>

\* The caller resumes the generator it holds, or the call in progress goes on.
Resume ==
    /\ Running
    /\ ret' = TraversalStep(ret)
    /\ UNCHANGED <<_nodes, _in, _out, ops>>

----------------------------------------------------------------------------
\* WeightedGraph and WeightedNode (weighted_graph.py).  An adjacency list of a
\* WeightedNode holds (weight, node) tuples, <<weight, node>> here.  The program
\* of this section constructs a plain Graph "g" and a WeightedGraph "h" and
\* makes every call on both, with the same ids.

Plain == "g"
Weighted == "h"
Weights == {1, 2}

\* WeightedNode.out_nodes / WeightedNode.in_nodes: the nodes of the tuples.
weighted_out_nodes(n) == [k \in 1..Len(_out[n]) |-> _out[n][k][2]]
weighted_in_nodes(n) == [k \in 1..Len(_in[n]) |-> _in[n][k][2]]

\* node == entry, entry being a (weight, node) tuple of an adjacency list: Node
\* defines no __eq__, so == is the identity of objects, and no tuple is a Node.
NodeEqualsEntry(node, entry) == FALSE

\* `node in entries`: list.__contains__ compares node with every entry.
NodeInEntries(node, entries) ==
    \E k \in 1..Len(entries) : NodeEqualsEntry(node, entries[k])

\* The list comprehension [n for n in entries if n[1] is not x].
WithoutNode(entries, x) == SelectSeq(entries, LAMBDA n : n[2] /= x)

\* WeightedNode.link: TypeError for a node that is no WeightedNode, then the
\* checks and the appends of Node.link, on tuples.
WeightedLinkRaises(self, node) ==
    IF _graph(node) /= Weighted THEN "TypeError"
    ELSE IF _graph(self) /= _graph(node) THEN "ValueError"
    ELSE "none"

WeightedLinkOut(self, node, weight) ==
    IF self = node THEN _out
    ELSE IF ~NodeInEntries(node, _out[self])
         THEN [_out EXCEPT ![self] = Append(@, <<weight, node>>)]
         ELSE _out

WeightedLinkIn(self, node, weight) ==
    IF self = node THEN _in
    ELSE IF ~NodeInEntries(self, _in[node])
         THEN [_in EXCEPT ![node] = Append(@, <<weight, self>>)]
         ELSE _in

\* WeightedNode.unlink, past its isinstance check.
WeightedUnlinkOut(self, node) == [_out EXCEPT ![self] = WithoutNode(@, node)]
WeightedUnlinkIn(self, node) == [_in EXCEPT ![node] = WithoutNode(@, self)]

\* WeightedNode.remove: the two loops, then the del of the registry entry.
WeightedRemoveOut(self) ==
    [m \in Node |-> IF m = self THEN <<>>
                    ELSE IF m \in Range(weighted_in_nodes(self))
                         THEN WithoutNode(_out[m], self)
                    ELSE _out[m]]

WeightedRemoveIn(self) ==
    [m \in Node |-> IF m = self THEN <<>>
                    ELSE IF m \in Range(weighted_out_nodes(self))
                         THEN WithoutNode(_in[m], self)
                    ELSE _in[m]]

\* The adjacency lists after a call on both graphs: those of the plain graph's
\* nodes from plain, those of the weighted graph's nodes from weighted.
OnBoth(plain, weighted) ==
    [n \in Node |-> IF _graph(n) = Plain THEN plain[n] ELSE weighted[n]]

\* g.new(id) and h.new(id): WeightedGraph.new is Graph.new and an assertion on
\* the type of the node.
SameNew(i) ==
    /\ ops < MaxOps
    /\ ops' = ops + 1
    /\ _nodes' = [gr \in Graphs |->
                     IF NewRaises(gr, i) THEN _nodes[gr] ELSE NewNodes(gr, i)[gr]]
    /\ _in' = OnBoth(IF NewRaises(Plain, i) THEN _in ELSE NewIn(Plain, i),
                     IF NewRaises(Weighted, i) THEN _in ELSE NewIn(Weighted, i))
    /\ _out' = OnBoth(IF NewRaises(Plain, i) THEN _out ELSE NewOut(Plain, i),
                      IF NewRaises(Weighted, i) THEN _out ELSE NewOut(Weighted, i))
    /\ ret' = Call("new", IF NewRaises(Weighted, i) THEN "ValueError" ELSE "none")

\* g[i].link(g[j]) and h[i].link(h[j], weight)
SameLink(i, j, weight) ==
    LET a == GetItem(Plain, i)
        b == GetItem(Plain, j)
        wa == GetItem(Weighted, i)
        wb == GetItem(Weighted, j)
    IN  /\ ops < MaxOps
        /\ {a, b, wa, wb} \subseteq Registered
        /\ ops' = ops + 1
        /\ _out' = OnBoth(LinkOut(a, b),
                          IF WeightedLinkRaises(wa, wb) /= "none" THEN _out
                          ELSE WeightedLinkOut(wa, wb, weight))
        /\ _in' = OnBoth(LinkIn(a, b),
                         IF WeightedLinkRaises(wa, wb) /= "none" THEN _in
                         ELSE WeightedLinkIn(wa, wb, weight))
        /\ ret' = Call("link", WeightedLinkRaises(wa, wb))
        /\ UNCHANGED _nodes

\* g[i].unlink(g[j]) and h[i].unlink(h[j])
SameUnlink(i, j) ==
    LET a == GetItem(Plain, i)
        b == GetItem(Plain, j)
        wa == GetItem(Weighted, i)
        wb == GetItem(Weighted, j)
    IN  /\ ops < MaxOps
        /\ {a, b, wa, wb} \subseteq Registered
        /\ ops' = ops + 1
        /\ _out' = OnBoth(UnlinkOut(a, b), WeightedUnlinkOut(wa, wb))
        /\ _in' = OnBoth(UnlinkIn(a, b), WeightedUnlinkIn(wa, wb))
        /\ ret' = Call("unlink", "none")
        /\ UNCHANGED _nodes

\* g[i].remove() and h[i].remove()
SameRemove(i) ==
    LET a == GetItem(Plain, i)
        wa == GetItem(Weighted, i)
    IN  /\ ops < MaxOps
        /\ {a, wa} \subseteq Registered
        /\ ops' = ops + 1
        /\ _out' = OnBoth(RemoveOut(a), WeightedRemoveOut(wa))
        /\ _in' = OnBoth(RemoveIn(a), WeightedRemoveIn(wa))
        /\ _nodes' = [gr \in Graphs |-> Without(_nodes[gr], i)]
        /\ ret' = Call("remove", "none")

----------------------------------------------------------------------------
\* Graph.read_graph.  The input is the sequence of its lines, each line "x y"
\* the pair <<x, y>> that line.split(sep) unpacks into; limit is None or Some(n).

Lines == UNION {[1..n -> Ids \X Ids] : n \in 0..MaxLines}
Limits == {None} \cup {Some(n) : n \in 0..MaxLines}

\* The empty graph `out = cls(node)`, its lists indexed by id.
NewGraph == [nodes |-> <<>>, in |-> [i \in Ids |-> <<>>], out |-> [i \in Ids |-> <<>>]]

\* `if id not in out: out.new(id)`
read_graph_new(out, i) ==
    IF i \in Range(out.nodes) THEN out
    ELSE [out EXCEPT !.nodes = Append(@, i), !.in[i] = <<>>, !.out[i] = <<>>]

\* out[x].link(out[y]): Node.link on two nodes of one graph.
read_graph_link(out, x, y) ==
    IF x = y THEN out
    ELSE [out EXCEPT !.out[x] = IF y \notin Range(@) THEN Append(@, y) ELSE @,
                     !.in[y] = IF x \notin Range(@) THEN Append(@, x) ELSE @]

\* The first iterable of the zip, `range(limit) if limit else _forever()`, as
\* the number of items it has, -1 for no end: None and 0 are both falsy.
Counter(limit) == IF limit = None \/ limit[1] = 0 THEN -1 ELSE limit[1]

RECURSIVE read_graph_loop(_, _, _, _)
\* The for loop of read_graph from line k on, `left` items left in the first
\* iterable: zip asks the first iterable, then the input, and stops when either
\* has no item.  `read` is the number of lines taken from the input.
read_graph_loop(lines, k, left, out) ==
    IF left = 0 \/ k > Len(lines) THEN [graph |-> out, read |-> k - 1]
    ELSE LET x == lines[k][1]
             y == lines[k][2]
         IN  read_graph_loop(lines, k + 1, IF left > 0 THEN left - 1 ELSE left,
                             read_graph_link(read_graph_new(read_graph_new(out, x), y),
                                             x, y))

\* Graph.read_graph(input_buffer=lines, limit=limit)
read_graph(lines, limit) == read_graph_loop(lines, 1, Counter(limit), NewGraph)

\* The list of the node objects of graph g with the ids of `ids`.
NodeList(g, ids) == [k \in 1..Len(ids) |-> GetItem(g, ids[k])]

\* g = Graph.read_graph(input_buffer=lines, limit=limit), the first call of a
\* program that constructs its graph from an input.
ReadGraph(g, lines, limit) ==
    LET r == read_graph(lines, limit)
    IN  /\ ret.op = "init"
        /\ _nodes' = [_nodes EXCEPT ![g] = r.graph.nodes]
        /\ _in' = [n \in Node |-> IF _graph(n) = g THEN NodeList(g, r.graph.in[id(n)])
                                  ELSE _in[n]]
        /\ _out' = [n \in Node |-> IF _graph(n) = g THEN NodeList(g, r.graph.out[id(n)])
                                   ELSE _out[n]]
        /\ ret' = [op |-> "read_graph", g |-> g, lines |-> lines, limit |-> limit,
                   read |-> r.read, exc |-> "none"]
        /\ UNCHANGED ops

----------------------------------------------------------------------------

Init ==
    /\ _nodes = [g \in Graphs |-> <<>>]
    /\ _in = [n \in Node |-> <<>>]
    /\ _out = [n \in Node |-> <<>>]
    /\ ops = 0
    /\ ret = Call("init", "none")

\* The calls of a program that constructs one graph.
Next ==
    \/ \E g \in OneGraph, i \in Ids : New(g, i)
    \/ \E a \in Node, b \in Node : Link(a, b)
    \/ \E a \in Node, b \in Node : Unlink(a, b)
    \/ \E a \in Node : Remove(a)
    \/ \E g \in OneGraph, i \in Ids : DelItem(g, i)

Spec == Init /\ [][Next]_vars

\* The calls of a program that constructs two graphs and uses one id in the
\* second one.
CrossKeys == (OneGraph \X Ids) \cup ((Graphs \ OneGraph) \X {1})

NextCross ==
    \/ \E k \in CrossKeys : New(k[1], k[2])
    \/ \E a \in Node, b \in Node : Link(a, b)
    \/ \E a \in Node, b \in Node : Unlink(a, b)
    \/ \E a \in Node : Remove(a)
    \/ \E k \in CrossKeys : DelItem(k[1], k[2])

SpecCross == Init /\ [][NextCross]_vars

NextScc == Next \/ \E g \in OneGraph : Scc(g)
SpecScc == Init /\ [][NextScc]_vars

NextCycle ==
    Next \/ \E g \in OneGraph, c \in BOOLEAN, t \in BOOLEAN : HasCycle(g, c, t)
SpecCycle == Init /\ [][NextCycle]_vars

NextTree == Next \/ \E g \in OneGraph : TreeRoot(g)
SpecTree == Init /\ [][NextTree]_vars

NextBfs == Next \/ \E a \in Node, reverse \in BOOLEAN : BfsPath(a, reverse)
SpecBfs == Init /\ [][NextBfs]_vars

NextTopo == Next \/ \E g \in OneGraph, reverse \in BOOLEAN : TopologicalOrder(g, reverse)
SpecTopo == Init /\ [][NextTopo]_vars

NextDfsPath == Next \/ \E a \in Node, reverse \in BOOLEAN : DfsPath(a, reverse)
SpecDfsPath == Init /\ [][NextDfsPath]_vars

NextDfs == NextDfsPath \/ \E a \in Node, reverse \in BOOLEAN : Dfs(a, reverse)
SpecDfs == Init /\ [][NextDfs]_vars

NextEdges == Next \/ \E a \in Node, reverse \in BOOLEAN : EdgesIter(a, reverse)
SpecEdges == Init /\ [][NextEdges]_vars

NextBfsLayers == Next \/ \E a \in Node, reverse \in BOOLEAN : Bfs(a, reverse)
SpecBfsLayers == Init /\ [][NextBfsLayers]_vars

NextBfsDepth ==
    Next \/ \E a \in Node, d \in Depths, reverse \in BOOLEAN : BfsPathDepth(a, d, reverse)
SpecBfsDepth == Init /\ [][NextBfsDepth]_vars

\* The three traversals that yield SearchNodes.
NextSearch ==
    \/ Next
    \/ \E a \in Node, reverse \in BOOLEAN : DfsPath(a, reverse)
    \/ \E a \in Node, reverse \in BOOLEAN : BfsPath(a, reverse)
    \/ \E a \in Node, reverse \in BOOLEAN : EdgesIter(a, reverse)
SpecSearch == Init /\ [][NextSearch]_vars

\* The calls that start a traversal.
Start ==
    \/ \E a \in Node, reverse \in BOOLEAN : DfsPathStart(a, reverse)
    \/ \E a \in Node, reverse \in BOOLEAN : BfsPathStart(a, reverse)
    \/ \E a \in Node, reverse \in BOOLEAN : EdgesIterStart(a, reverse)
    \/ \E g \in OneGraph, reverse \in BOOLEAN : TopologicalOrderStart(g, reverse)
    \/ \E g \in OneGraph, c \in BOOLEAN, t \in BOOLEAN : HasCycleStart(g, c, t)
    \/ \E g \in OneGraph : TreeRootStart(g)
    \/ \E g \in OneGraph : SccStart(g)

\* has_cycle and tree_root are calls, not generators: the caller makes its next
\* call when they have returned.
InCall == Running /\ ret.name \in {"has_cycle", "tree_root"}

\* Traversals made step by step, with the two adapters dfs and bfs read to the
\* end; the caller may drop a generator at any point by making another call.
NextAbandon ==
    \/ /\ ~InCall
       /\ \/ Next
          \/ Start
          \/ \E a \in Node, reverse \in BOOLEAN : Dfs(a, reverse)
          \/ \E a \in Node, reverse \in BOOLEAN : Bfs(a, reverse)
    \/ Resume
SpecAbandon == Init /\ [][NextAbandon]_vars

\* Traversals made step by step and fully consumed: the caller makes no other
\* call while the generator it holds has items left, and keeps resuming it.
NextConsumed == (~Running /\ (Next \/ Start)) \/ Resume
SpecConsumed == Init /\ [][NextConsumed]_vars /\ WF_vars(Resume)

\* edges_iter and has_cycle made step by step, each run to its end or to its
\* return before the next call.
NextMarkers ==
    \/ /\ ~Running
       /\ \/ Next
          \/ \E a \in Node, reverse \in BOOLEAN : EdgesIterStart(a, reverse)
          \/ \E g \in OneGraph, c \in BOOLEAN, t \in BOOLEAN : HasCycleStart(g, c, t)
    \/ Resume
SpecMarkers == Init /\ [][NextMarkers]_vars

\* The same calls made on a plain Graph and on a WeightedGraph.
NextWeighted ==
    \/ \E i \in Ids : SameNew(i)
    \/ \E i \in Ids, j \in Ids, weight \in Weights : SameLink(i, j, weight)
    \/ \E i \in Ids, j \in Ids : SameUnlink(i, j)
    \/ \E i \in Ids : SameRemove(i)
SpecWeighted == Init /\ [][NextWeighted]_vars

\* A graph read from an input, and the calls made on it afterwards.
NextRead ==
    \/ \E g \in OneGraph, lines \in Lines, limit \in Limits : ReadGraph(g, lines, limit)
    \/ Next
SpecRead == Init /\ [][NextRead]_vars

\* The three calls that read SearchNode.parent.
NextParent ==
    \/ Next
    \/ \E a \in Node, reverse \in BOOLEAN : EdgesIter(a, reverse)
    \/ \E g \in OneGraph, c \in BOOLEAN, t \in BOOLEAN : HasCycle(g, c, t)
    \/ \E g \in OneGraph : TreeRoot(g)
SpecParent == Init /\ [][NextParent]_vars

NextSccCollected == Next \/ \E g \in OneGraph : SccCollected(g)
SpecSccCollected == Init /\ [][NextSccCollected]_vars

----------------------------------------------------------------------------
\* Graph theory the claims are stated in, defined on the adjacency lists alone.

Edge(u, v) == v \in Range(_out[u])
Successors(n, reverse) == Range(Adj(n, reverse))

RECURSIVE ReachSet(_, _)
\* The nodes reachable from the nodes of S in the followed direction.
ReachSet(S, reverse) ==
    LET T == S \cup UNION {Successors(n, reverse) : n \in S}
    IN  IF T = S THEN S ELSE ReachSet(T, reverse)

Reaches(u, v) == v \in ReachSet({u}, FALSE)

HasDirectedCycle(g) == \E u \in NodesOf(g), v \in NodesOf(g) : Edge(u, v) /\ Reaches(v, u)

\* The strongly connected component of n: the nodes mutually reachable with n.
SccOf(n) == {m \in NodesOf(_graph(n)) : Reaches(n, m) /\ Reaches(m, n)}

RECURSIVE Distance(_, _, _, _, _)
\* The hop count of a shortest path to target from the layer `frontier`, which is
\* at distance d; -1 when target is not reachable.
Distance(frontier, seen, d, target, reverse) ==
    IF target \in frontier THEN d
    ELSE IF frontier = {} THEN -1
    ELSE Distance(UNION {Successors(n, reverse) : n \in frontier} \ seen,
                  seen \cup UNION {Successors(n, reverse) : n \in frontier},
                  d + 1, target, reverse)

ShortestDist(root, target, reverse) == Distance({root}, {root}, 0, target, reverse)

\* The positions of x in a sequence.
Positions(seq, x) == {k \in 1..Len(seq) : seq[k] = x}

RECURSIVE Flatten(_)
\* The concatenation of a sequence of sequences.
Flatten(seqs) == IF seqs = <<>> THEN <<>> ELSE Head(seqs) \o Flatten(Tail(seqs))

NoDuplicates(seq) == \A x \in Range(seq) : Cardinality(Positions(seq, x)) = 1

NoInEdge(g) == {n \in NodesOf(g) : _in[n] = <<>>}

\* g is an out-tree with root r.
IsOutTree(g, r) ==
    /\ NoInEdge(g) = {r}
    /\ \A n \in NodesOf(g) \ {r} : Cardinality(Range(_in[n])) = 1
    /\ ReachSet({r}, FALSE) = NodesOf(g)

----------------------------------------------------------------------------
\* Claims

\* C1: when each component is consumed before the next one is requested,
\* strongly_connected_components yields exactly the strongly connected components:
\* every node of the graph is in exactly one yielded component, and every yielded
\* component is the set of nodes mutually reachable with its members.
C1_SccExact ==
    ret.op = "strongly_connected_components" =>
        /\ \A n \in NodesOf(ret.g) : Cardinality(Positions(Flatten(ret.val), n)) = 1
        /\ \A c \in 1..Len(ret.val) :
              /\ ret.val[c] /= <<>>
              /\ \A n \in Range(ret.val[c]) : Range(ret.val[c]) = SccOf(n)

\* C2: has_cycle() with its default flags returns true iff the graph contains a
\* directed cycle, whatever the creation and link order.
C2_HasCycleIffCycle ==
    (ret.op = "has_cycle" /\ ret.allow_cross_edges /\ ~ret.allow_trivial_back_edges) =>
        /\ ret.exc = "none"
        /\ ret.val <=> HasDirectedCycle(ret.g)

C2_Witness ==
    /\ ret.op = "has_cycle" /\ ret.allow_cross_edges /\ ~ret.allow_trivial_back_edges
    /\ ret.val
    /\ Cardinality(NodesOf(ret.g)) = 3
    /\ \A u \in Node, v \in Node : ~(Edge(u, v) /\ Edge(v, u))

\* C3: on an acyclic graph topological_order() yields every node exactly once and
\* u before v for every edge u->v; with reverse=True every node exactly once and
\* v before u for every edge u->v.
C3_TopologicalOrder ==
    (ret.op = "topological_order" /\ ~HasDirectedCycle(ret.g)) =>
        /\ \A n \in NodesOf(ret.g) : Cardinality(Positions(ret.val, n)) = 1
        /\ Range(ret.val) = NodesOf(ret.g)
        /\ \A u \in NodesOf(ret.g), v \in NodesOf(ret.g) :
              Edge(u, v) =>
                  \A i \in Positions(ret.val, u), j \in Positions(ret.val, v) :
                      IF ret.reverse THEN j < i ELSE i < j

C3_Witness ==
    /\ ret.op = "topological_order" /\ ~ret.reverse /\ ~HasDirectedCycle(ret.g)
    /\ Len(ret.val) = 3
    /\ ret.val /= Iter(ret.g)
    /\ \E u \in Node, v \in Node, w \in Node : Edge(u, v) /\ Edge(v, w)

\* C4: on an out-tree (one node r without in-edges, every other node with exactly
\* one in-edge, every node reachable from r) tree_root() returns r, whatever the
\* order in which the nodes were created and the edges were linked.
C4_TreeRootOfOutTree ==
    ret.op = "tree_root" =>
        \A r \in NodesOf(ret.g) :
            IsOutTree(ret.g, r) => (ret.exc = "none" /\ ret.val = Some(r))

\* C5: tree_root() returns None for the empty graph, for every graph with a
\* directed cycle, for every graph in which some node has two in-edges and for
\* every graph with more than one node without in-edge; a node it returns has no
\* in-edges and reaches every node of the graph.
C5_TreeRootOnlyOfTrees ==
    ret.op = "tree_root" =>
        /\ ( \/ NodesOf(ret.g) = {}
             \/ HasDirectedCycle(ret.g)
             \/ \E n \in NodesOf(ret.g) : Cardinality(Range(_in[n])) >= 2
             \/ Cardinality(NoInEdge(ret.g)) > 1 )
           => ret.val = None
        /\ ret.val /= None =>
              /\ _in[ret.val[1]] = <<>>
              /\ ReachSet({ret.val[1]}, FALSE) = NodesOf(ret.g)

\* C6: bfs_path(root) without max_depth yields exactly one SearchNode for each node
\* reachable from root in the followed direction and none for any other node, and
\* the dist of each is the shortest hop count from root to its node.
C6_BfsShortest ==
    (ret.op = "bfs_path" /\ ret.max_depth = None) =>
        /\ {ret.val[k].node : k \in 1..Len(ret.val)} = ReachSet({ret.self}, ret.reverse)
        /\ Len(ret.val) = Cardinality(ReachSet({ret.self}, ret.reverse))
        /\ \A k \in 1..Len(ret.val) :
              ret.val[k].dist = ShortestDist(ret.self, ret.val[k].node, ret.reverse)

C6_Witness ==
    /\ ret.op = "bfs_path" /\ ret.max_depth = None /\ ~ret.reverse
    /\ Len(ret.val) = 3
    /\ ret.val[2].dist = 1 /\ ret.val[3].dist = 1
    /\ Edge(ret.val[2].node, ret.val[3].node)

\* C7: after any sequence of new, link, unlink and remove calls on registered
\* nodes, for all registered nodes A and B of a graph, B is in A's out list iff A
\* is in B's in list.
C7_Symmetry ==
    \A A \in Registered, B \in Registered :
        _graph(A) = _graph(B) => (B \in Range(_out[A]) <=> A \in Range(_in[B]))

C7_Witness ==
    /\ ret.op = "remove"
    /\ \E A \in Registered, B \in Registered : B \in Range(_out[A]) /\ A \in Range(_in[B])

\* C8: after any sequence of new, link, unlink and remove calls no node's in list
\* or out list contains the node itself and no list contains a node twice, and
\* a.link(a) returns normally and leaves every adjacency list unchanged.
C8_NoSelfLoopNoDuplicate ==
    \A a \in Registered :
        /\ a \notin Range(_in[a]) /\ a \notin Range(_out[a])
        /\ NoDuplicates(_in[a]) /\ NoDuplicates(_out[a])
        /\ ~LinkRaises(a, a) /\ LinkOut(a, a) = _out /\ LinkIn(a, a) = _in

\* A link call just returned and no edge exists: the call was some a.link(a).
C8_Witness ==
    /\ ret.op = "link" /\ ret.exc = "none"
    /\ \A n \in Node : _in[n] = <<>> /\ _out[n] = <<>>

\* C9: for distinct nodes a and b of one graph, after a.link(b) b is in a's out
\* list and a is in b's in list; a new entry is appended at the end, no list other
\* than a's out list and b's in list changes, and a second a.link(b) changes
\* nothing.
C9_LinkPost(a, b) ==
    /\ ret'.exc = "none"
    /\ b \in Range(_out'[a]) /\ a \in Range(_in'[b])
    /\ _out'[a] = IF b \in Range(_out[a]) THEN _out[a] ELSE Append(_out[a], b)
    /\ _in'[b] = IF a \in Range(_in[b]) THEN _in[b] ELSE Append(_in[b], a)
    /\ \A m \in Node : (m /= a => _out'[m] = _out[m]) /\ (m /= b => _in'[m] = _in[m])
    /\ _nodes' = _nodes
    /\ (LinkOut(a, b))' = _out' /\ (LinkIn(a, b))' = _in'

C9_Link ==
    [][\A a \in Node, b \in Node :
          (a /= b /\ _graph(a) = _graph(b) /\ Link(a, b)) => C9_LinkPost(a, b)]_vars

\* The link that recorded the last entry of both lists of a pair was the last call.
C9_Witness ==
    /\ ret.op = "link" /\ ops = 6
    /\ \E a \in Registered, b \in Registered :
          /\ Len(_out[a]) = 2 /\ _out[a][2] = b
          /\ Len(_in[b]) = 2 /\ _in[b][2] = a

\* C10: after n.remove() or del graph[n.id] no remaining node has n in its in list
\* or out list, n's id is no longer registered, every edge between two other
\* nodes is unchanged, and Graph.new with n's id succeeds again and returns a node
\* with empty adjacency.
C10_RemovePost(n) ==
    /\ ~(Contains(_graph(n), id(n)))'
    /\ _nodes'[_graph(n)] = Without(_nodes[_graph(n)], id(n))
    /\ \A m \in Node \ {n} :
          /\ n \notin Range(_in'[m]) /\ n \notin Range(_out'[m])
          /\ _in'[m] = Without(_in[m], n) /\ _out'[m] = Without(_out[m], n)
    /\ ~(NewRaises(_graph(n), id(n)))'
    /\ (NewIn(_graph(n), id(n)))'[n] = <<>> /\ (NewOut(_graph(n), id(n)))'[n] = <<>>

C10_NewPost(g, i) ==
    /\ (Contains(g, i))'
    /\ _in'[<<g, i>>] = <<>> /\ _out'[<<g, i>>] = <<>>
    /\ \A m \in Node : <<g, i>> \notin Range(_in'[m]) /\ <<g, i>> \notin Range(_out'[m])

C10_Remove ==
    [][/\ \A n \in Node :
             (Remove(n) \/ (DelItem(_graph(n), id(n)) /\ ret'.exc = "none"))
                 => C10_RemovePost(n)
       /\ \A g \in Graphs, i \in Ids :
             (New(g, i) /\ ret'.exc = "none") => C10_NewPost(g, i)]_vars

\* A node was removed last, and an edge between the two other nodes is still there.
C10_Witness ==
    /\ ret.op \in {"remove", "delitem"} /\ ret.exc = "none"
    /\ Cardinality(Registered) = 2
    /\ \E a \in Registered, b \in Registered : Edge(a, b)

\* C11: a.link(b) with a and b owned by different graphs raises the
\* cross-graph-link error, Graph.new(id) with a registered id raises the
\* duplicate-id error, and after either no registry and no adjacency list of any
\* graph has changed.
C11_FailingMutation ==
    [][/\ \A a \in Node, b \in Node :
             (_graph(a) /= _graph(b) /\ Link(a, b)) =>
                 /\ ret' = Call("link", "ValueError")
                 /\ _nodes' = _nodes /\ _in' = _in /\ _out' = _out
       /\ \A g \in Graphs, i \in Ids :
             (Contains(g, i) /\ New(g, i)) =>
                 /\ ret' = Call("new", "ValueError")
                 /\ _nodes' = _nodes /\ _in' = _in /\ _out' = _out]_vars

\* A link from a node that has an edge to a node of the other graph has just
\* raised.
C11_Witness ==
    /\ ret = Call("link", "ValueError")
    /\ \E a \in Registered, b \in Registered :
          _graph(a) /= _graph(b) /\ _out[a] /= <<>>

C13_RootFirst ==
    /\ ret.op = "dfs" => (ret.val /= <<>> /\ ret.val[1] = ret.self)
    /\ ret.op = "dfs_path" =>
          (ret.val /= <<>> /\ ret.val[1] = SearchNode(ret.self, 0, None))

\* The tag the rule of C14 gives the k-th pair of an edges_iter result, an edge
\* u -> v: v is unseen when it is not the root and no earlier pair leads into it,
\* in-progress when it lies on the search path from the root to u, and finished
\* otherwise.
C14_Tag(k) ==
    LET v == ret.val[k][2].node
        u == ret.val[k][2].parent[1]
        unseen == v /= ret.self /\ \A j \in 1..(k - 1) : ret.val[j][2].node /= v
        in_progress == v \in Range(path(u))
        immediate_parent == u.parent /= None /\ u.parent[1].node = v
    IN  IF unseen THEN TREE_EDGE
        ELSE IF in_progress /\ immediate_parent THEN TRIVIAL_BACK_EDGE
        ELSE IF in_progress THEN BACK_EDGE
        ELSE CROSS_EDGE

\* C14: edges_iter(root) with a fresh marker map yields exactly one pair for
\* every edge u -> v (in the followed direction) whose source u is reachable from
\* root, with SearchNode.node = v and SearchNode.parent.node = u, and the tag is
\* TREE_EDGE iff v is unseen when the edge is explored, TRIVIAL_BACK_EDGE iff v is
\* in-progress and u's immediate parent, BACK_EDGE iff v is in-progress and not
\* u's immediate parent, CROSS_EDGE iff v is finished.
C14_EdgeClassification ==
    ret.op = "edges_iter" =>
        /\ ret.exc = "none"
        /\ \A k \in 1..Len(ret.val) : ret.val[k][2].parent /= None
        /\ LET reach == ReachSet({ret.self}, ret.reverse)
               edges == {e \in reach \X Node : e[2] \in Successors(e[1], ret.reverse)}
               pairs == [k \in 1..Len(ret.val) |->
                            <<ret.val[k][2].parent[1].node, ret.val[k][2].node>>]
           IN  Range(pairs) = edges /\ Len(pairs) = Cardinality(edges)
        /\ \A k \in 1..Len(ret.val) : ret.val[k][1] = C14_Tag(k)

\* A result with a tree edge, a back edge that is not trivial and three pairs.
C14_Witness ==
    /\ ret.op = "edges_iter" /\ Len(ret.val) = 3
    /\ \E j \in 1..3, k \in 1..3 : ret.val[j][1] = TREE_EDGE /\ ret.val[k][1] = BACK_EDGE

RECURSIVE C15_Classification(_, _, _)
\* The classification of a whole graph: the pairs of edges_iter run to the end
\* from every node of order[k..], sharing one marker map.
C15_Classification(order, k, markers) ==
    IF k > Len(order) THEN <<>>
    ELSE LET r == edges_iter(order[k], FALSE, markers, None)
         IN  r.out \o C15_Classification(order, k + 1, r.visited)

\* C15: for every combination of the two flags, has_cycle returns true iff the
\* classification of the whole graph (edges_iter from every node in iteration
\* order, one shared marker map) contains a BACK_EDGE, or a CROSS_EDGE while
\* allow_cross_edges is false, or a TRIVIAL_BACK_EDGE while
\* allow_trivial_back_edges is false.
C15_HasCycleFlags ==
    ret.op = "has_cycle" =>
        LET all == C15_Classification(Iter(ret.g), 1, NoMarkers)
            tags == {all[k][1] : k \in 1..Len(all)}
        IN  /\ ret.exc = "none"
            /\ ret.val <=> \/ BACK_EDGE \in tags
                           \/ CROSS_EDGE \in tags /\ ~ret.allow_cross_edges
                           \/ TRIVIAL_BACK_EDGE \in tags /\ ~ret.allow_trivial_back_edges

\* has_cycle returned true for a cross edge alone: the graph has no cycle.
C15_Witness ==
    /\ ret.op = "has_cycle" /\ ~ret.allow_cross_edges /\ ret.allow_trivial_back_edges
    /\ ret.val
    /\ ~HasDirectedCycle(ret.g)

\* C16: when each layer is consumed before the next is requested, bfs(root)
\* yields layers such that the k-th layer (counting from 0) holds exactly the
\* nodes at shortest distance k from root, each once; the first layer is [root],
\* no layer is empty, every reachable node is in a layer, and the dist values of
\* the underlying bfs_path sequence never decrease.
C16_BfsLayers ==
    (ret.op = "bfs" /\ ret.max_depth = None) =>
        /\ ret.val /= <<>> /\ ret.val[1] = <<ret.self>>
        /\ \A k \in 1..Len(ret.val) :
              /\ ret.val[k] /= <<>>
              /\ NoDuplicates(ret.val[k])
              /\ Range(ret.val[k])
                   = {n \in Node : ShortestDist(ret.self, n, ret.reverse) = k - 1}
        /\ UNION {Range(ret.val[k]) : k \in 1..Len(ret.val)}
             = ReachSet({ret.self}, ret.reverse)
        /\ LET search_nodes == bfs_path(ret.self, None, ret.reverse)
           IN  \A k \in 1..(Len(search_nodes) - 1) :
                   search_nodes[k].dist <= search_nodes[k + 1].dist

\* Two layers, the second with two nodes.
C16_Witness ==
    /\ ret.op = "bfs" /\ ret.max_depth = None
    /\ Len(ret.val) = 2 /\ Len(ret.val[2]) = 2

\* C17: bfs_path(root, max_depth=d) with d >= 0 yields exactly the nodes whose
\* shortest distance from root is at most d, each once and with its shortest
\* distance as dist; no SearchNode with dist > d is yielded.
C17_BfsMaxDepth ==
    (ret.op = "bfs_path" /\ ret.max_depth /= None) =>
        LET d == ret.max_depth[1]
            near == {n \in Node : ShortestDist(ret.self, n, ret.reverse) \in 0..d}
        IN  /\ {ret.val[k].node : k \in 1..Len(ret.val)} = near
            /\ Len(ret.val) = Cardinality(near)
            /\ \A k \in 1..Len(ret.val) :
                  /\ ret.val[k].dist = ShortestDist(ret.self, ret.val[k].node, ret.reverse)
                  /\ ret.val[k].dist <= d

\* A node at distance 1 was yielded and its neighbour at distance 2 was not.
C17_Witness ==
    /\ ret.op = "bfs_path" /\ ret.max_depth = Some(1) /\ ~ret.reverse
    /\ Len(ret.val) = 2
    /\ \E n \in Registered : ShortestDist(ret.self, n, FALSE) = 2

\* The SearchNodes of the last result of dfs_path, bfs_path or edges_iter.
C18_SearchNodes ==
    IF ret.op = "edges_iter" THEN {ret.val[k][2] : k \in 1..Len(ret.val)}
    ELSE {ret.val[k] : k \in 1..Len(ret.val)}

RECURSIVE C18_Chain(_)
\* The SearchNode without parent that the parent links of s end in, and the
\* number of links followed to reach it.
C18_Chain(s) ==
    IF s.parent = None THEN [root |-> s, steps |-> 0]
    ELSE LET c == C18_Chain(s.parent[1])
         IN  [root |-> c.root, steps |-> c.steps + 1]

\* C18: for every SearchNode s yielded by dfs_path, bfs_path or edges_iter, the
\* parent links from s reach the search root after exactly s.dist steps, s.path()
\* starts at the search root, ends at s.node and has s.dist + 1 entries, and
\* every consecutive pair of the path is an edge in the followed direction.
C18_ParentChain ==
    ret.op \in {"dfs_path", "bfs_path", "edges_iter"} =>
        \A s \in C18_SearchNodes :
            /\ C18_Chain(s).root = SearchNode(ret.self, 0, None)
            /\ C18_Chain(s).steps = s.dist
            /\ Len(path(s)) = s.dist + 1
            /\ path(s)[1] = ret.self
            /\ path(s)[Len(path(s))] = s.node
            /\ \A i \in 1..(Len(path(s)) - 1) :
                  path(s)[i + 1] \in Successors(path(s)[i], ret.reverse)

\* edges_iter over in-edges closed a cycle of three: a path of four entries.
C18_Witness ==
    /\ ret.op = "edges_iter" /\ ret.reverse
    /\ \E s \in C18_SearchNodes : s.dist = 3 /\ s.node = ret.self

\* C19: on every graph, cyclic or not, a fully consumed dfs_path, bfs_path,
\* edges_iter, topological_order, has_cycle, tree_root and
\* strongly_connected_components eventually ends, and within one call (one
\* shared visited set or marker map) the body of each node is entered at most
\* once.
C19_Terminates ==
    /\ [](ret.op = "traversal" =>
             NoDuplicates(ret.m.entered) /\ NoDuplicates(ret.c.entered))
    /\ Running ~> (ret.op = "traversal" /\ ret.pc = "done")

\* strongly_connected_components ended on a graph with a cycle through every
\* node.
C19_Witness ==
    /\ ret.op = "traversal" /\ ret.pc = "done"
    /\ ret.name = "strongly_connected_components"
    /\ Len(ret.m.entered) = 3
    /\ \A n \in NodesOf(ret.args.g) : SccOf(n) = NodesOf(ret.args.g)

\* The traversal ret holds, once it is over, has yielded or returned what the
\* same call yields or returns on the graph as it is, whatever call preceded it.
C20_SameSequence ==
    (ret.op = "traversal" /\ ret.pc = "done") =>
        IF ret.name = "dfs_path"
        THEN ret.m.out = dfs(ret.args.self, ret.args.reverse, {}).out
        ELSE IF ret.name = "bfs_path"
        THEN ret.m.out = bfs_path(ret.args.self, None, ret.args.reverse)
        ELSE IF ret.name = "edges_iter"
        THEN LET r == edges_iter(ret.args.self, ret.args.reverse, NoMarkers, None)
             IN  /\ ret.exc = Raised(r.exc)
                 /\ ret.m.out = [k \in 1..Len(r.out) |->
                                    <<r.out[k][1], r.out[k][2].parent[1].node, r.out[k][2].node>>]
        ELSE IF ret.name = "topological_order"
        THEN ret.m.out = topological_order(ret.args.g, ret.args.reverse)
        ELSE IF ret.name = "has_cycle"
        THEN LET r == has_cycle(ret.args.g, ret.args.allow_cross_edges,
                                ret.args.allow_trivial_back_edges)
             IN  ret.exc = Raised(r.exc) /\ (~r.exc => ret.val = Some(r.val))
        ELSE IF ret.name = "tree_root"
        THEN LET r == tree_root(ret.args.g)
             IN  ret.exc = Raised(r.exc) /\ ret.val = r.val
        ELSE ret.val = strongly_connected_components(ret.args.g)


\* C20: no traversal changes the registry or an adjacency list, and a traversal
\* abandoned after any number of items leaves nothing behind: a traversal started
\* later with fresh arguments yields the sequence the graph alone determines.
C20_NoTraceLeft ==
    /\ [][ret'.op \in {"traversal", "dfs", "bfs"} =>
             (_nodes' = _nodes /\ _in' = _in /\ _out' = _out)]_vars
    /\ []C20_SameSequence

\* A dfs_path that was started while another generator had items left has been
\* consumed to its end.
C20_Witness ==
    /\ ret.op = "traversal" /\ ret.pc = "done" /\ ret.dropped
    /\ ret.name = "dfs_path" /\ Len(ret.m.out) = 3

\* What a.unlink(b) leaves behind, the edge a -> b existing or not.
C21_UnlinkPost(a, b) ==
    /\ ret' = Call("unlink", "none")
    /\ b \notin Range(_out'[a]) /\ a \notin Range(_in'[b])
    /\ _out'[a] = Without(_out[a], b) /\ _in'[b] = Without(_in[b], a)
    /\ ~Edge(a, b) => (_out' = _out /\ _in' = _in)
    /\ \A m \in Node : (m /= a => _out'[m] = _out[m]) /\ (m /= b => _in'[m] = _in[m])
    /\ \A u \in Node :
          Range(_out'[u]) = Range(_out[u]) \ (IF u = a THEN {b} ELSE {})
    /\ _nodes' = _nodes

\* C21: a.unlink(b) removes b from a's out list and a from b's in list when the
\* edge a -> b exists and changes nothing when it does not; the opposite edge
\* b -> a and the edges of every other pair are unchanged, and a.link(b) followed
\* by a.unlink(b) on a previously absent edge restores the adjacency lists
\* exactly.
C21_Unlink ==
    [][/\ ret'.op = "unlink" =>
             \A a \in Registered, b \in Registered :
                 Unlink(a, b) => C21_UnlinkPost(a, b)
       /\ ret'.op = "link" =>
             \A a \in Registered, b \in Registered :
                 (~Edge(a, b) /\ Link(a, b)) =>
                     ((UnlinkOut(a, b))' = _out /\ (UnlinkIn(a, b))' = _in)]_vars

\* An unlink was the last of six calls and left one edge b -> a between three
\* nodes: three new, a.link(b), b.link(a), a.unlink(b).
C21_Witness ==
    /\ ret.op = "unlink" /\ ops = 6
    /\ Cardinality(Registered) = 3
    /\ \E a \in Registered, b \in Registered :
          /\ Edge(b, a) /\ ~Edge(a, b)
          /\ \A u \in Registered, v \in Registered : Edge(u, v) => <<u, v>> = <<b, a>>

\* The start nodes of the second pass in the order they were taken: dfs yields
\* the node it was called on last, so each component ends with its start node.
C22_Starts == [c \in 1..Len(ret.val) |-> ret.val[c][Len(ret.val[c])]]

\* The finish order of a DFS over the reverse graph: from every node of the
\* graph in turn, following in-edges, one shared visited set.
C22_ReverseFinishOrder == topological_order_loop(Iter(ret.g), 1, FALSE, {})

\* C22: strongly_connected_components takes the start nodes of its second pass
\* in decreasing finish-order of a first-pass DFS that runs over the reverse
\* graph (follows in-edges): the node that finished last in the first pass is
\* the first start node of the second pass.
C22_SecondPassOrder ==
    (ret.op = "strongly_connected_components" /\ ret.val /= <<>>) =>
        LET F == C22_ReverseFinishOrder
            S == C22_Starts
        IN  /\ S[1] = F[Len(F)]
            /\ \A i \in 1..Len(S), j \in 1..Len(S) :
                  i < j => \A p \in Positions(F, S[i]), q \in Positions(F, S[j]) : p > q

\* Every pair of the whole graph's classification that is tagged `tag` is an
\* edge u -> v whose target reaches its source: the edge lies on a directed cycle.
C23_OnCycle(tag) ==
    LET all == C15_Classification(Iter(ret.g), 1, NoMarkers)
    IN  \A k \in 1..Len(all) :
            all[k][1] = tag =>
                /\ Edge(all[k][2].parent[1].node, all[k][2].node)
                /\ Reaches(all[k][2].node, all[k][2].parent[1].node)

\* Two nodes of the graph are linked in both directions.
C23_TwoCycle(g) == \E u \in NodesOf(g), v \in NodesOf(g) : Edge(u, v) /\ Edge(v, u)

\* C23 as claimed: in a directed graph every edge classified BackEdge lies on a
\* directed cycle, while TrivialBackEdge and CrossEdge classifications do not
\* indicate a directed cycle: whenever has_cycle(allow_cross_edges=True,
\* allow_trivial_back_edges=True) returns false, the graph contains no directed
\* cycle.
C23_FalseMeansAcyclic ==
    ret.op = "has_cycle" =>
        /\ C23_OnCycle(BACK_EDGE)
        /\ (ret.allow_cross_edges /\ ret.allow_trivial_back_edges /\ ~ret.val)
               => ~HasDirectedCycle(ret.g)

\* C23, amended: every edge classified BackEdge or TrivialBackEdge lies on a
\* directed cycle, a TrivialBackEdge on a two-node cycle u -> v -> u; whenever
\* has_cycle(allow_cross_edges=True, allow_trivial_back_edges=True) returns false
\* and no two nodes are linked in both directions, the graph contains no
\* directed cycle.
C23_FalseMeansNoLongCycle ==
    ret.op = "has_cycle" =>
        /\ ret.exc = "none"
        /\ C23_OnCycle(BACK_EDGE)
        /\ C23_OnCycle(TRIVIAL_BACK_EDGE)
        /\ LET all == C15_Classification(Iter(ret.g), 1, NoMarkers)
           IN  \A k \in 1..Len(all) :
                   all[k][1] = TRIVIAL_BACK_EDGE =>
                       Edge(all[k][2].node, all[k][2].parent[1].node)
        /\ (ret.allow_cross_edges /\ ret.allow_trivial_back_edges /\ ~ret.val
              /\ ~C23_TwoCycle(ret.g))
               => ~HasDirectedCycle(ret.g)

\* has_cycle(True, True) returned false on a graph of three edges, no two of them
\* opposite, one of them classified as a cross edge.
C23_Witness ==
    /\ ret.op = "has_cycle" /\ ret.allow_cross_edges /\ ret.allow_trivial_back_edges
    /\ ~ret.val
    /\ ~C23_TwoCycle(ret.g)
    /\ Cardinality({e \in Node \X Node : Edge(e[1], e[2])}) = 3
    /\ LET all == C15_Classification(Iter(ret.g), 1, NoMarkers)
       IN  \E k \in 1..Len(all) : all[k][1] = CROSS_EDGE

\* The nodes of the calls in progress, outermost first: the active DFS path.
C24_ActivePath == [i \in 1..Len(ret.m.frames) |-> ret.m.frames[i].node]

\* The root the run explores now: the node edges_iter was called on, or the
\* last node has_cycle took from the graph's iteration.
C24_CurrentRoot ==
    IF ret.name = "edges_iter" THEN ret.args.self
    ELSE Iter(ret.args.g)[Len(Iter(ret.args.g)) - Len(ret.m.roots)]

\* The in-progress nodes are exactly the nodes of the active path, which leads
\* from the current root along edges of the followed direction.
C24_PathInProgress ==
    ret.op = "traversal" =>
        /\ ret.exc = "none"
        /\ {n \in Node : ret.m.visited[n] = EXPLORED} = Range(C24_ActivePath)
        /\ NoDuplicates(C24_ActivePath)
        /\ C24_ActivePath /= <<>> => C24_ActivePath[1] = C24_CurrentRoot
        /\ \A i \in 1..(Len(C24_ActivePath) - 1) :
              C24_ActivePath[i + 1] \in Successors(C24_ActivePath[i], ret.m.reverse)

\* C24: during edges_iter (also across the roots of one has_cycle run sharing
\* the marker map), each node's marker only ever moves unseen -> in-progress ->
\* finished and never backwards, and at every step the in-progress nodes are
\* exactly the nodes on the active DFS path from the current root to the node
\* being explored.
C24_Markers ==
    /\ [][Resume =>
             \A n \in Node :
                 <<ret.m.visited[n], ret'.m.visited[n]>> \in
                     {<<UNSEEN, UNSEEN>>, <<UNSEEN, EXPLORED>>, <<EXPLORED, EXPLORED>>,
                      <<EXPLORED, VISITED>>, <<VISITED, VISITED>>}]_vars
    /\ []C24_PathInProgress

\* has_cycle explores its second root or a later one: a node is finished, and
\* the active path holds two nodes.
C24_Witness ==
    /\ Running /\ ret.name = "has_cycle"
    /\ Len(ret.m.frames) = 2
    /\ ret.m.frames[1].node /= Iter(ret.args.g)[1]
    /\ \E n \in Node : ret.m.visited[n] = VISITED

\* The ids of a list of nodes.
C25_Ids(nodes) == [k \in 1..Len(nodes) |-> id(nodes[k])]

\* C25: a WeightedGraph driven by the same sequence of new, link, unlink and
\* remove calls as a plain Graph (with any weights) exposes, after every step,
\* the same in_nodes and out_nodes for every node as the plain Graph; linking
\* an already linked pair again, with the same or another weight, adds no
\* duplicate entry.
C25_SameAdjacency ==
    /\ _nodes[Weighted] = _nodes[Plain]
    /\ \A i \in Ids :
          /\ C25_Ids(weighted_out_nodes(GetItem(Weighted, i)))
               = C25_Ids(out_nodes(GetItem(Plain, i)))
          /\ C25_Ids(weighted_in_nodes(GetItem(Weighted, i)))
               = C25_Ids(in_nodes(GetItem(Plain, i)))
          /\ NoDuplicates(weighted_out_nodes(GetItem(Weighted, i)))
          /\ NoDuplicates(weighted_in_nodes(GetItem(Weighted, i)))

RECURSIVE C26_FirstMentions(_, _, _)
\* The ids named on lines[k..], each once, in the order of its first mention,
\* after the ids of seen.
C26_FirstMentions(lines, k, seen) ==
    IF k > Len(lines) THEN seen
    ELSE LET x == lines[k][1]
             y == lines[k][2]
             s1 == IF x \in Range(seen) THEN seen ELSE Append(seen, x)
             s2 == IF y \in Range(s1) THEN s1 ELSE Append(s1, y)
         IN  C26_FirstMentions(lines, k + 1, s2)

\* C26: Graph.read_graph called with limit = n reads at most n lines of the
\* input, for every n >= 0 (no line when n = 0), and the graph it returns has
\* exactly the nodes named on the lines read, created in order of first
\* mention, and exactly the edges x -> y of those lines (a repeated line or a
\* line naming the same id twice adds no edge).
C26_ReadLimit ==
    (ret.op = "read_graph" /\ ret.limit /= None) =>
        LET taken == SubSeq(ret.lines, 1, ret.read)
        IN  /\ ret.read <= ret.limit[1]
            /\ _nodes[ret.g] = C26_FirstMentions(taken, 1, <<>>)
            /\ \A u \in NodesOf(ret.g), v \in NodesOf(ret.g) :
                  Edge(u, v) <=> (u /= v /\ <<id(u), id(v)>> \in Range(taken))
            /\ \A u \in NodesOf(ret.g) : NoDuplicates(_out[u]) /\ NoDuplicates(_in[u])

\* No pair of `pairs` is an edge that leaves a search root (its SearchNode is at
\* dist 1) and targets an in-progress node.
C27_RootEdges(pairs) ==
    \A k \in 1..Len(pairs) :
        pairs[k][2].dist = 1 => pairs[k][1] \in {TREE_EDGE, CROSS_EDGE}

\* C27: for any graph built through new/link/unlink/remove, edges_iter started
\* from any root with a fresh marker map, and has_cycle and tree_root with any
\* flags, never raise the missing-parent error: the parent of the root
\* SearchNode is never requested, because an edge leaving a search root never
\* targets an in-progress node.
C27_NoMissingParent ==
    /\ ret.op \in {"edges_iter", "has_cycle", "tree_root"} => ret.exc = "none"
    /\ ret.op = "edges_iter" => C27_RootEdges(ret.val)
    /\ ret.op \in {"has_cycle", "tree_root"} =>
          C27_RootEdges(C15_Classification(Iter(ret.g), 1, NoMarkers))

\* edges_iter found an edge back into its root while the root was in progress:
\* the parent of a SearchNode was requested, and it was not the root's.
C27_Witness ==
    /\ ret.op = "edges_iter" /\ ret.exc = "none"
    /\ \E k \in 1..Len(ret.val) :
          /\ ret.val[k][1] \in {TRIVIAL_BACK_EDGE, BACK_EDGE}
          /\ ret.val[k][2].node = ret.self

\* C28: the components produced by strongly_connected_components do not depend
\* on when the caller consumes them: collecting all components from the outer
\* sequence first and reading their nodes afterwards gives the same number of
\* components, each non-empty and with the same nodes, as reading each component
\* fully before requesting the next.
C28_ConsumptionOrder ==
    ret.op = "list(strongly_connected_components)" =>
        LET in_turn == strongly_connected_components(ret.g)
        IN  /\ Len(ret.val) = Len(in_turn)
            /\ \A c \in 1..Len(ret.val) :
                  /\ ret.val[c] /= <<>>
                  /\ c <= Len(in_turn) => Range(ret.val[c]) = Range(in_turn[c])

====
